---- MODULE Spec2Model ----
(***************************************************************************)
(* A model of the Ignitor of @adonisjs/core                                *)
(* (src/packages/core/src/Ignitor/index.ts): the bootstrap sequence of     *)
(* startHttpServer, the rc file resolution, the module loader, the         *)
(* provider lifecycle, the autoload registrar and the preload runner.      *)
(*                                                                         *)
(* An optional JavaScript value (a property that may be undefined) is a    *)
(* set with at most one element: {} is undefined, {v} is the value v.      *)
(***************************************************************************)
EXTENDS Naturals, Sequences, FiniteSets, TLC

VARIABLES
    pc,             \* the position of control inside startHttpServer
    intent,         \* Ignitor._intent ("undefined" until it is set)
    assigned,       \* the names of the instance fields that have been assigned
    directories,    \* Ignitor.directories
    autoloads,      \* Ignitor.autoloads
    typescript,     \* Ignitor.typescript
    preloads,       \* Ignitor.preloads
    ioc,            \* Ignitor.ioc, the container
    server,         \* Ignitor.server
    DEFAULTS,       \* the module level DEFAULTS object (shared, mutable)
    list,           \* _bootProviders: the provider list handed to the registrar
    userAliases,    \* _bootProviders: the `aliases` export of start/app
    registered,     \* the registrar: providers whose register hook has run
    booted,         \* the registrar: providers whose boot hook has run
    loads,          \* every call of _require, in order, with what it read
    trace,          \* every step of the bootstrap, in order
    error,          \* the error caught by startHttpServer, if any
    logged,         \* the errors written by console.log
    exitCode,       \* the status given to process.exit, if any
    rcModule,       \* environment: what tsRequire yields for .adonisrc.json
    appModule,      \* environment: what tsRequire yields for start/app
    serverCallback, \* argument of startHttpServer: is a callback supplied
    reads,          \* every read of an instance field: was it assigned then
    bindResult      \* the transport: undefined until it has bound or failed to

vars == << pc, intent, assigned, directories, autoloads, typescript, preloads,
           ioc, server, DEFAULTS, list, userAliases, registered, booted, loads,
           trace, error, logged, exitCode, rcModule, appModule, serverCallback,
           reads, bindResult >>

(***************************************************************************)
(* Bounds of the model.                                                    *)
(***************************************************************************)
MaxProviders == 2
MaxPreloads == 2

(***************************************************************************)
(* Generic helpers.                                                        *)
(***************************************************************************)
EmptyMap == [k \in {} |-> ""]

SeqUpTo(S, n) == UNION { [1..k -> S] : k \in 0..n }

Some(opt) == CHOOSE v \in opt : TRUE

IsPrefix(s, t) == Len(s) <= Len(t) /\ \A i \in 1..Len(s) : s[i] = t[i]

(***************************************************************************)
(* Errors. An error carries its code; the E_MISSING_APP_ESSENTIALS         *)
(* exception also carries the two values its message is built from.        *)
(***************************************************************************)
ErrorRec(code, prop, where) == [code |-> code, prop |-> prop, where |-> where]

NoError == ErrorRec("", "", "")

(***************************************************************************)
(* constructor (public appRoot: string)                                    *)
(***************************************************************************)
AppRoot == "/srv/app"

(***************************************************************************)
(* const DEFAULTS                                                          *)
(***************************************************************************)
DefaultDirectories ==
    [ config |-> "./config",
      public |-> "./public",
      database |-> "./database",
      migrations |-> "./database/migrations",
      seeds |-> "./database/seeds",
      resources |-> "./resources",
      views |-> "./resources/views",
      tmp |-> "./tmp",
      start |-> "./start" ]

DefaultAutoloads == [ App |-> "./app" ]

InitialDefaults ==
    [ typescript |-> FALSE,
      autoloads |-> DefaultAutoloads,
      preloads |-> << >>,
      directories |-> DefaultDirectories ]

(***************************************************************************)
(* tsRequire: the outcome of loading a file is the loaded value or a       *)
(* thrown error.                                                           *)
(***************************************************************************)
Loaded(value) == [kind |-> "ok", value |-> value]

LoadFails(code) == [kind |-> "err", error |-> ErrorRec(code, "", "")]

(***************************************************************************)
(* Ignitor._require: the null result is [kind |-> "null"].                 *)
(***************************************************************************)
RequireIgnoresOptional(outcome, optional) ==
    IF outcome.kind = "ok"
    THEN [kind |-> "return", value |-> outcome.value]
    ELSE IF outcome.error.code \in {"MODULE_NOT_FOUND", "ENOENT"}
         THEN [kind |-> "null"]
         ELSE [kind |-> "throw", error |-> outcome.error]

Require(outcome, optional) ==
    IF outcome.kind = "ok"
    THEN [kind |-> "return", value |-> outcome.value]
    ELSE IF outcome.error.code \in {"MODULE_NOT_FOUND", "ENOENT"} /\ optional
         THEN [kind |-> "null"]
         ELSE [kind |-> "throw", error |-> outcome.error]

\* One call of _require as `loads` records it: the caller, the path, the
\* optional flag, the typescript field as it was read, the outcome of
\* tsRequire and the result of _require.
LoadRec(by, file, optional, outcome, result) ==
    [ by |-> by, file |-> file, optional |-> optional,
      tsDefined |-> "typescript" \in assigned, ts |-> typescript,
      outcome |-> outcome, result |-> result ]

(***************************************************************************)
(* lodash merge(object, ...sources) on maps of strings: the keys of each   *)
(* defined source are assigned to the object, in source order; an          *)
(* undefined source is skipped.                                            *)
(***************************************************************************)
Assign(object, source) ==
    [ k \in (DOMAIN object) \cup (DOMAIN source) |->
        IF k \in DOMAIN source THEN source[k] ELSE object[k] ]

RECURSIVE Merge(_, _)
Merge(object, sources) ==
    IF sources = << >>
    THEN object
    ELSE IF Head(sources) = {}
         THEN Merge(object, Tail(sources))
         ELSE Merge(Assign(object, Some(Head(sources))), Tail(sources))

(***************************************************************************)
(* Ignitor._loadRcFile, after the file is read: the four fields it         *)
(* assigns and the DEFAULTS object as the call leaves it.                  *)
(***************************************************************************)
ResolveRcDefaultsWin(defaults, rcFile) ==
    [ directories |-> Merge(EmptyMap, << rcFile.directories, {defaults.directories} >>),
      autoloads |-> IF rcFile.autoloads # {} THEN Some(rcFile.autoloads)
                    ELSE defaults.autoloads,
      typescript |-> IF rcFile.typescript # {} /\ Some(rcFile.typescript)
                     THEN TRUE ELSE defaults.typescript,
      preloads |-> IF rcFile.preloads # {} THEN Some(rcFile.preloads) ELSE << >>,
      defaults |-> defaults ]

ResolveRcMergesAutoloads(defaults, rcFile) ==
    [ directories |-> Merge(EmptyMap, << {defaults.directories}, rcFile.directories >>),
      autoloads |-> Merge(EmptyMap, << {defaults.autoloads}, rcFile.autoloads >>),
      typescript |-> IF rcFile.typescript # {} /\ Some(rcFile.typescript)
                     THEN TRUE ELSE defaults.typescript,
      preloads |-> IF rcFile.preloads # {} THEN Some(rcFile.preloads) ELSE << >>,
      defaults |-> defaults ]

ResolveRc(defaults, rcFile) ==
    [ directories |-> Merge(EmptyMap, << {defaults.directories}, rcFile.directories >>),
      autoloads |-> IF rcFile.autoloads # {} THEN Some(rcFile.autoloads)
                    ELSE defaults.autoloads,
      typescript |-> IF rcFile.typescript # {} /\ Some(rcFile.typescript)
                     THEN TRUE ELSE defaults.typescript,
      preloads |-> IF rcFile.preloads # {} THEN Some(rcFile.preloads) ELSE << >>,
      defaults |-> defaults ]

\* `this._require(...) || {}`: the object with no property set
EmptyRcFile == [directories |-> {}, autoloads |-> {}, typescript |-> {}, preloads |-> {}]

(***************************************************************************)
(* The container (Ioc of @adonisjs/fold) as the Ignitor uses it:           *)
(* new Ioc(false, typescript), singleton(name, factory),                   *)
(* alias(name, alias), autoload(path, alias), use(name).                   *)
(***************************************************************************)
IocNew(ts) ==
    [ typescript |-> ts, bindings |-> EmptyMap, aliases |-> EmptyMap,
      autoloads |-> EmptyMap ]

IocBind(c, name, singleton, by) ==
    [c EXCEPT !.bindings =
        Assign(@, name :> [singleton |-> singleton, by |-> by])]

IocAlias(c, name, alias) ==
    [c EXCEPT !.aliases = Assign(@, alias :> name)]

IocHas(c, name) == name \in DOMAIN c.bindings

(***************************************************************************)
(* Ignitor._bindHelpers                                                    *)
(***************************************************************************)
BindHelpersWithoutAlias(c) ==
    IocBind(c, "Adonis/Src/Helpers", TRUE, "Ignitor")

BindHelpers(c) ==
    IocAlias(IocBind(c, "Adonis/Src/Helpers", TRUE, "Ignitor"),
             "Adonis/Src/Helpers", "Helpers")

(***************************************************************************)
(* Ignitor._registerAutoloads: ioc.autoload(join(appRoot, path), alias)    *)
(* for every alias of the autoload map. A joined path is the tuple of its  *)
(* parts.                                                                  *)
(***************************************************************************)
RegisterAutoloadsOnNested(c, root, map) ==
    [c EXCEPT !.autoloads =
        Assign(@, [alias \in DOMAIN map |->
                     IF alias \in DOMAIN c.autoloads
                     THEN c.autoloads[alias] \o << map[alias] >>
                     ELSE << root, map[alias] >>])]

RegisterAutoloadsOn(c, root, map) ==
    [c EXCEPT !.autoloads =
        Assign(@, [alias \in DOMAIN map |-> << root, map[alias] >>])]

(***************************************************************************)
(* The providers of the model: what the register hook of each binds and    *)
(* which alias it gives itself.                                            *)
(***************************************************************************)
ProviderIds == {"HttpProvider", "EnvProvider"}

AceProviderIds == {"ReplProvider"}

ProviderBindings(p) ==
    CASE p = "HttpProvider" -> {"Adonis/Src/Server", "Adonis/Src/Route"}
      [] p = "EnvProvider" -> {"Adonis/Src/Env"}
      [] OTHER -> {"Adonis/Addons/Repl"}

ProviderAliases(p) ==
    CASE p = "HttpProvider" -> [Server |-> "Adonis/Src/Server", Route |-> "Adonis/Src/Route"]
      [] p = "EnvProvider" -> [Env |-> "Adonis/Src/Env"]
      [] OTHER -> [Repl |-> "Adonis/Addons/Repl"]

\* registrar.register(): the register hook of one provider
RegisterOn(c, p) ==
    [c EXCEPT
        !.bindings = Assign(@, [n \in ProviderBindings(p) |->
                                   [singleton |-> TRUE, by |-> p]]),
        !.aliases = Assign(@, ProviderAliases(p))]

(***************************************************************************)
(* Ignitor._bootProviders: the list handed to the registrar and the user   *)
(* aliases.                                                                *)
(***************************************************************************)
ChooseListAceFirst(runIntent, providers, aceProviders) ==
    IF runIntent = "ace" THEN aceProviders \o providers ELSE providers

ChooseList(runIntent, providers, aceProviders) ==
    IF runIntent = "ace" THEN providers \o aceProviders ELSE providers

ApplyAliasesKeepingProviders(c, aliases) ==
    IF aliases # {}
    THEN [c EXCEPT !.aliases = Assign(Some(aliases), @)]
    ELSE c

ApplyAliases(c, aliases) ==
    IF aliases # {}
    THEN [c EXCEPT !.aliases = Assign(@, Some(aliases))]
    ELSE c

(***************************************************************************)
(* Ignitor._loadAppFile: an export of start/app is undefined ({}) or a     *)
(* value, and a value is an array or null. The first required export that  *)
(* is not truthy, or "" when all three are.                                *)
(***************************************************************************)
JsArray(items) == [type |-> "array", items |-> items]

JsNull == [type |-> "null", items |-> << >>]

Truthy(opt) == opt # {} /\ Some(opt).type # "null"

RequiredExportsWithoutCommands == << "providers", "aceProviders" >>

RequiredExports == << "providers", "aceProviders", "commands" >>

RECURSIVE FirstMissing(_, _)
FirstMissing(appExports, props) ==
    IF props = << >>
    THEN ""
    ELSE IF ~Truthy(appExports[Head(props)])
         THEN Head(props)
         ELSE FirstMissing(appExports, Tail(props))

MissingExport(appExports) == FirstMissing(appExports, RequiredExports)

(***************************************************************************)
(* Ignitor._preloadFiles: the filter, and the loads of the forEach up to   *)
(* the first one that throws.                                              *)
(***************************************************************************)
PreloadOutcome(file) ==
    CASE file = "start/events" -> LoadFails("MODULE_NOT_FOUND")
      [] file = "start/hooks" -> LoadFails("ENOENT")
      [] file = "start/broken" -> LoadFails("ERR_SYNTAX")
      [] OTHER -> Loaded(file)

MatchesIntentOnly(node, runIntent) == node.intent = {runIntent}

Matches(node, runIntent) == node.intent = {runIntent} \/ node.intent = {}

PreloadEachRegardless(nodes, done) ==
    done \o [ i \in 1..Len(nodes) |->
                LoadRec("preloadFiles", << AppRoot, nodes[i].file >>,
                        nodes[i].optional, PreloadOutcome(nodes[i].file),
                        Require(PreloadOutcome(nodes[i].file), nodes[i].optional)) ]

RECURSIVE PreloadEach(_, _)
PreloadEach(nodes, done) ==
    IF nodes = << >>
    THEN done
    ELSE LET node == Head(nodes)
             outcome == PreloadOutcome(node.file)
             result == Require(outcome, node.optional)
             rec == LoadRec("preloadFiles", << AppRoot, node.file >>,
                            node.optional, outcome, result)
         IN IF result.kind = "throw"
            THEN Append(done, rec)
            ELSE PreloadEach(Tail(nodes), Append(done, rec))

PreloadLoads(nodes, runIntent) ==
    LET Test(node) == Matches(node, runIntent)
    IN PreloadEach(SelectSeq(nodes, Test), << >>)

(***************************************************************************)
(* The environment of one run: the files on disk.                          *)
(***************************************************************************)
RcFile(d, a, t, p) == [directories |-> d, autoloads |-> a, typescript |-> t, preloads |-> p]

PreloadNode(file, nodeIntent, optional) ==
    [file |-> file, intent |-> nodeIntent, optional |-> optional]

PreloadNodes ==
    { PreloadNode("start/routes", {}, FALSE),
      PreloadNode("start/kernel", {"http"}, FALSE),
      PreloadNode("start/ace", {"ace"}, FALSE),
      PreloadNode("start/events", {"http"}, TRUE),
      PreloadNode("start/events", {}, FALSE),
      PreloadNode("start/hooks", {}, TRUE),
      PreloadNode("start/broken", {"http"}, TRUE) }

DirectoryOptions ==
    { {}, {EmptyMap}, {[start |-> "./boot"]},
      {[config |-> "./cfg", uploads |-> "./uploads"]} }

AutoloadOptions ==
    { {}, {EmptyMap}, {[App |-> "./src", Contracts |-> "./contracts"]} }

RcModules ==
    { LoadFails(code) : code \in {"MODULE_NOT_FOUND", "ENOENT", "ERR_SYNTAX"} }
    \cup { Loaded(RcFile(d, a, t, {})) :
             d \in DirectoryOptions, a \in AutoloadOptions,
             t \in {{}, {TRUE}, {FALSE}} }
    \cup { Loaded(RcFile({}, {}, t, {p})) :
             t \in {{}, {TRUE}}, p \in SeqUpTo(PreloadNodes, MaxPreloads) }

CoreRcModules ==
    { LoadFails("MODULE_NOT_FOUND"),
      Loaded(RcFile({[start |-> "./boot"]},
                    {[App |-> "./src", Contracts |-> "./contracts"]},
                    {TRUE},
                    {<< PreloadNode("start/routes", {}, FALSE),
                        PreloadNode("start/events", {"http"}, TRUE) >>})) }

AppExports(p, a, c, al) == [providers |-> p, aceProviders |-> a, commands |-> c, aliases |-> al]

AliasOptions ==
    { {}, {[Server |-> "App/CustomServer"]},
      {[Env |-> "Adonis/Src/Route", Db |-> "Adonis/Src/Env"]} }

ExportOptions(items) == { {}, {JsNull}, {JsArray(items)} }

AppModules ==
    { LoadFails(code) : code \in {"MODULE_NOT_FOUND", "ERR_SYNTAX"} }
    \cup { Loaded(AppExports({JsArray(p)}, {JsArray(a)}, {JsArray(<< "Greet" >>)}, al)) :
             p \in SeqUpTo(ProviderIds, MaxProviders),
             a \in {<< >>, << "ReplProvider" >>},
             al \in AliasOptions }
    \cup { Loaded(AppExports(p, a, c, {[Server |-> "App/CustomServer"]})) :
             p \in ExportOptions(<< "HttpProvider", "EnvProvider" >>),
             a \in ExportOptions(<< "ReplProvider" >>),
             c \in ExportOptions(<< "Greet" >>) }

CoreAppModules ==
    { Loaded(AppExports({JsArray(<< "HttpProvider", "EnvProvider" >>)},
                        {JsArray(<< "ReplProvider" >>)},
                        {JsArray(<< "Greet" >>)},
                        {[Server |-> "App/CustomServer"]})),
      Loaded(AppExports({JsArray(<< "EnvProvider", "HttpProvider" >>)},
                        {JsArray(<< >>)}, {}, {})) }

(***************************************************************************)
(* The state after `new Ignitor(appRoot)`.                                 *)
(***************************************************************************)
Constructed ==
    /\ reads = {}
    /\ bindResult = {}
    /\ directories = EmptyMap
    /\ autoloads = EmptyMap
    /\ typescript = FALSE
    /\ preloads = << >>
    /\ ioc = IocNew(FALSE)
    /\ server = [createdBy |-> ""]
    /\ DEFAULTS = InitialDefaults
    /\ list = << >>
    /\ userAliases = {}
    /\ registered = << >>
    /\ booted = << >>
    /\ loads = << >>
    /\ trace = << >>
    /\ error = NoError
    /\ logged = << >>
    /\ exitCode = {}
    /\ \/ rcModule \in RcModules /\ appModule \in CoreAppModules
       \/ rcModule \in CoreRcModules /\ appModule \in AppModules
    /\ serverCallback \in BOOLEAN

Init ==
    /\ pc = "unstarted"
    /\ intent = "undefined"
    /\ assigned = {}
    /\ Constructed

(***************************************************************************)
(* The order of the steps of _bootstrap and startHttpServer.               *)
(***************************************************************************)
PhasesAutoloadsBeforeProviders ==
    << "loadRcFile", "instantiateIoCContainer", "bindHelpers", "registerAutoloads",
       "bootProviders", "preloadFiles", "createHttp", "listen" >>

PhasesPreloadsBeforeAutoloads ==
    << "loadRcFile", "instantiateIoCContainer", "bindHelpers", "bootProviders",
       "preloadFiles", "registerAutoloads", "createHttp", "listen" >>

PhasesHttpBeforeAutoloads ==
    << "loadRcFile", "instantiateIoCContainer", "bindHelpers", "bootProviders",
       "createHttp", "registerAutoloads", "preloadFiles", "listen" >>

Phases ==
    << "loadRcFile", "instantiateIoCContainer", "bindHelpers", "bootProviders",
       "registerAutoloads", "preloadFiles", "createHttp", "listen" >>

After(phase) ==
    LET i == CHOOSE j \in 1..Len(Phases) : Phases[j] = phase
    IN IF i < Len(Phases) THEN Phases[i + 1] ELSE "listening"

Ev(op, arg) == [op |-> op, arg |-> arg]

Begin(phase) == Ev("begin", phase)

End(phase) == Ev("end", phase)

fields == << directories, autoloads, typescript, preloads >>

registrar == << list, userAliases, registered, booted >>

environment == << rcModule, appModule, serverCallback >>

exit == << logged, exitCode >>

(***************************************************************************)
(* A read of an instance field, `this.<field>`, by a method.               *)
(***************************************************************************)
Read(field, by) == [field |-> field, by |-> by, defined |-> field \in assigned]

(***************************************************************************)
(* startHttpServer: `this._intent = 'http'`, then the try block.           *)
(***************************************************************************)
StartHttpServer ==
    /\ pc = "unstarted"
    /\ intent' = "http"
    /\ assigned' = assigned \cup {"_intent"}
    /\ pc' = Phases[1]
    /\ UNCHANGED << fields, ioc, server, DEFAULTS, registrar, loads, trace,
                    error, exit, environment, reads, bindResult >>

(***************************************************************************)
(* _loadRcFile                                                             *)
(***************************************************************************)
RcOptionalFalse == FALSE

RcOptional == TRUE

LoadRcFile ==
    /\ pc = "loadRcFile"
    /\ reads' = reads \cup {Read("typescript", "loadRcFile")}
    /\ LET result == Require(rcModule, RcOptional)
           rec == LoadRec("loadRcFile", << AppRoot, ".adonisrc.json" >>,
                          RcOptional, rcModule, result)
       IN /\ loads' = Append(loads, rec)
          /\ IF result.kind = "throw"
             THEN /\ trace' = Append(trace, Begin("loadRcFile"))
                  /\ pc' = "catch"
                  /\ error' = result.error
                  /\ UNCHANGED << fields, DEFAULTS, assigned >>
             ELSE LET rcFile == IF result.kind = "null" THEN EmptyRcFile
                                ELSE result.value
                      r == ResolveRc(DEFAULTS, rcFile)
                  IN /\ directories' = r.directories
                     /\ autoloads' = r.autoloads
                     /\ typescript' = r.typescript
                     /\ preloads' = r.preloads
                     /\ DEFAULTS' = r.defaults
                     /\ assigned' = assigned \cup
                           {"directories", "autoloads", "typescript", "preloads"}
                     /\ trace' = trace \o << Begin("loadRcFile"), End("loadRcFile") >>
                     /\ pc' = After("loadRcFile")
                     /\ UNCHANGED error
    /\ UNCHANGED << intent, ioc, server, registrar, exit, environment, bindResult >>

(***************************************************************************)
(* _instantiateIoCContainer                                                *)
(***************************************************************************)
InstantiateIoCContainer ==
    /\ pc = "instantiateIoCContainer"
    /\ reads' = reads \cup {Read("typescript", "instantiateIoCContainer")}
    /\ ioc' = IocNew(typescript)
    /\ assigned' = assigned \cup {"ioc"}
    /\ trace' = trace \o << Begin("instantiateIoCContainer"),
                            End("instantiateIoCContainer") >>
    /\ pc' = After("instantiateIoCContainer")
    /\ UNCHANGED << intent, fields, server, DEFAULTS, registrar, loads, error,
                    exit, environment, bindResult >>

(***************************************************************************)
(* _bindHelpers (the factory reads this.directories only when the          *)
(* singleton is resolved)                                                  *)
(***************************************************************************)
BindHelpersStep ==
    /\ pc = "bindHelpers"
    /\ reads' = reads \cup {Read("ioc", "bindHelpers")}
    /\ ioc' = BindHelpers(ioc)
    /\ trace' = trace \o << Begin("bindHelpers"), End("bindHelpers") >>
    /\ pc' = After("bindHelpers")
    /\ UNCHANGED << intent, assigned, fields, server, DEFAULTS, registrar, loads,
                    error, exit, environment, bindResult >>

(***************************************************************************)
(* _bootProviders, first step: _loadAppFile and the choice of the list.    *)
(* Reading a property of the null a missing optional file gives is a       *)
(* TypeError.                                                              *)
(***************************************************************************)
LoadAppFile ==
    /\ pc = "bootProviders"
    /\ LET result == Require(appModule, FALSE)
           rec == LoadRec("loadAppFile", << AppRoot, directories.start, "app" >>,
                          FALSE, appModule, result)
           missing == IF result.kind = "return" THEN MissingExport(result.value)
                      ELSE ""
           valid == result.kind = "return" /\ missing = ""
       IN /\ loads' = Append(loads, rec)
          /\ trace' = Append(trace, Begin("bootProviders"))
          /\ reads' = reads \cup
                { Read("ioc", "bootProviders"), Read("directories", "loadAppFile"),
                  Read("typescript", "loadAppFile") }
                \cup (IF valid THEN {Read("_intent", "bootProviders")} ELSE {})
          /\ IF result.kind = "throw"
             THEN /\ pc' = "catch"
                  /\ error' = result.error
                  /\ UNCHANGED << list, userAliases >>
             ELSE IF result.kind = "null"
             THEN /\ pc' = "catch"
                  /\ error' = ErrorRec("TypeError", "", "")
                  /\ UNCHANGED << list, userAliases >>
             ELSE IF missing # ""
             THEN /\ pc' = "catch"
                  /\ error' = ErrorRec("E_MISSING_APP_ESSENTIALS", missing,
                                       directories.start)
                  /\ UNCHANGED << list, userAliases >>
             ELSE /\ list' = ChooseList(intent,
                                        Some(result.value.providers).items,
                                        Some(result.value.aceProviders).items)
                  /\ userAliases' = result.value.aliases
                  /\ pc' = "register"
                  /\ UNCHANGED error
    /\ UNCHANGED << intent, assigned, fields, ioc, server, DEFAULTS, registered,
                    booted, exit, environment, bindResult >>

(***************************************************************************)
(* registrar.useProviders(list).register(): the register hook of the next  *)
(* provider of the list runs, or throws.                                   *)
(***************************************************************************)
RegisterProvider ==
    /\ pc = "register"
    /\ Len(registered) < Len(list)
    /\ LET p == list[Len(registered) + 1]
       IN \E throws \in BOOLEAN :
            IF throws
            THEN /\ pc' = "catch"
                 /\ error' = ErrorRec("E_PROVIDER_REGISTER", p, "")
                 /\ UNCHANGED << ioc, registered, trace >>
            ELSE /\ ioc' = RegisterOn(ioc, p)
                 /\ registered' = Append(registered, p)
                 /\ trace' = Append(trace, Ev("register", p))
                 /\ UNCHANGED << pc, error >>
    /\ UNCHANGED << intent, assigned, fields, server, DEFAULTS, list, userAliases,
                    booted, loads, exit, environment, reads, bindResult >>

(***************************************************************************)
(* _bootProviders: the user aliases, once register() has returned.         *)
(***************************************************************************)
ApplyUserAliases ==
    /\ pc = "register"
    /\ Len(registered) = Len(list)
    /\ ioc' = ApplyAliases(ioc, userAliases)
    /\ trace' = IF userAliases # {} THEN Append(trace, Ev("aliases", "user"))
                ELSE trace
    /\ reads' = IF userAliases # {} /\ DOMAIN Some(userAliases) # {}
                THEN reads \cup {Read("ioc", "bootProviders")}
                ELSE reads
    /\ pc' = "boot"
    /\ UNCHANGED << intent, assigned, fields, server, DEFAULTS, registrar, loads,
                    error, exit, environment, bindResult >>

(***************************************************************************)
(* await registrar.boot(providersInstances): the boot hook of the next     *)
(* registered provider runs, or throws; the promise resolves after the     *)
(* last one.                                                               *)
(***************************************************************************)
BootProvider ==
    /\ pc = "boot"
    /\ Len(booted) < Len(registered)
    /\ LET p == registered[Len(booted) + 1]
       IN \E throws \in BOOLEAN :
            IF throws
            THEN /\ pc' = "catch"
                 /\ error' = ErrorRec("E_PROVIDER_BOOT", p, "")
                 /\ UNCHANGED << booted, trace >>
            ELSE /\ booted' = Append(booted, p)
                 /\ trace' = Append(trace, Ev("boot", p))
                 /\ UNCHANGED << pc, error >>
    /\ UNCHANGED << intent, assigned, fields, ioc, server, DEFAULTS, list,
                    userAliases, registered, loads, exit, environment, reads,
                    bindResult >>

BootResolved ==
    /\ pc = "boot"
    /\ Len(booted) = Len(registered)
    /\ trace' = Append(trace, End("bootProviders"))
    /\ pc' = After("bootProviders")
    /\ UNCHANGED << intent, assigned, fields, ioc, server, DEFAULTS, registrar,
                    loads, error, exit, environment, reads, bindResult >>

(***************************************************************************)
(* _registerAutoloads                                                      *)
(***************************************************************************)
RegisterAutoloads ==
    /\ pc = "registerAutoloads"
    /\ reads' = reads \cup {Read("autoloads", "registerAutoloads")}
                  \cup (IF DOMAIN autoloads # {}
                        THEN {Read("ioc", "registerAutoloads")} ELSE {})
    /\ ioc' = RegisterAutoloadsOn(ioc, AppRoot, autoloads)
    /\ trace' = trace \o << Begin("registerAutoloads"), End("registerAutoloads") >>
    /\ pc' = After("registerAutoloads")
    /\ UNCHANGED << intent, assigned, fields, server, DEFAULTS, registrar, loads,
                    error, exit, environment, bindResult >>

(***************************************************************************)
(* _preloadFiles                                                           *)
(***************************************************************************)
PreloadFiles ==
    /\ pc = "preloadFiles"
    /\ LET done == PreloadLoads(preloads, intent)
           failed == done # << >> /\ done[Len(done)].result.kind = "throw"
       IN /\ loads' = loads \o done
          /\ reads' = reads \cup {Read("preloads", "preloadFiles")}
                        \cup (IF preloads # << >>
                              THEN {Read("_intent", "preloadFiles")} ELSE {})
                        \cup (IF done # << >>
                              THEN {Read("typescript", "preloadFiles")} ELSE {})
          /\ IF failed
             THEN /\ trace' = Append(trace, Begin("preloadFiles"))
                  /\ pc' = "catch"
                  /\ error' = done[Len(done)].result.error
             ELSE /\ trace' = trace \o << Begin("preloadFiles"), End("preloadFiles") >>
                  /\ pc' = After("preloadFiles")
                  /\ UNCHANGED error
    /\ UNCHANGED << intent, assigned, fields, ioc, server, DEFAULTS, registrar,
                    exit, environment, bindResult >>

(***************************************************************************)
(* _createHttp: its steps in order, each with the calls it makes and the   *)
(* error it may throw (ioc.use throws when the name is not bound or when   *)
(* its factory throws); a step that throws ends the method. `fault` is the *)
(* collaborator that throws in this run, if any.                           *)
(***************************************************************************)
HttpStepsOptimizeEarly ==
    << "useServer", "optimize", "useRoute", "commit", "bindHandle", "transport" >>

HttpSteps ==
    << "useServer", "useRoute", "commit", "optimize", "bindHandle", "transport" >>

TransportCallsBoth(callbackGiven) ==
    IF callbackGiven
    THEN << Ev("bind", "Adonis/Src/Server"), Ev("createServer", "handler"),
            Ev("serverCallback", "handler") >>
    ELSE << Ev("bind", "Adonis/Src/Server"), Ev("createServer", "handler") >>

TransportCalls(callbackGiven) ==
    IF callbackGiven
    THEN << Ev("serverCallback", "handler") >>
    ELSE << Ev("bind", "Adonis/Src/Server"), Ev("createServer", "handler") >>

TransportOfCalls(calls) == calls[Len(calls)].op

StepCalls(step, callbackGiven) ==
    CASE step = "useServer" -> << Ev("use", "Adonis/Src/Server") >>
      [] step = "useRoute" -> << Ev("use", "Adonis/Src/Route") >>
      [] step = "commit" -> << Ev("commit", "Adonis/Src/Route") >>
      [] step = "optimize" -> << Ev("optimize", "Adonis/Src/Server") >>
      [] step = "bindHandle" -> << Ev("bind", "Adonis/Src/Server") >>
      [] OTHER -> TransportCalls(callbackGiven)

StepError(step, c, fault) ==
    CASE step = "useServer" ->
            IF ~IocHas(c, "Adonis/Src/Server")
            THEN ErrorRec("E_IOC_LOOKUP", "Adonis/Src/Server", "")
            ELSE IF fault = "useServer"
            THEN ErrorRec("E_IOC_RESOLVE", "Adonis/Src/Server", "")
            ELSE NoError
      [] step = "useRoute" ->
            IF ~IocHas(c, "Adonis/Src/Route")
            THEN ErrorRec("E_IOC_LOOKUP", "Adonis/Src/Route", "")
            ELSE IF fault = "useRoute"
            THEN ErrorRec("E_IOC_RESOLVE", "Adonis/Src/Route", "")
            ELSE NoError
      [] step = "commit" ->
            IF fault = "commit" THEN ErrorRec("E_ROUTER_COMMIT", "", "") ELSE NoError
      [] step = "optimize" ->
            IF fault = "optimize" THEN ErrorRec("E_SERVER_OPTIMIZE", "", "") ELSE NoError
      [] step = "transport" ->
            IF fault = "transport" THEN ErrorRec("E_TRANSPORT", "", "") ELSE NoError
      [] OTHER -> NoError

\* the collaborator that throws: a binding's factory on use, the router, the
\* server, the transport constructor
HttpFaults == {"none", "useServer", "useRoute", "commit", "optimize", "transport"}

RECURSIVE RunHttp(_, _, _, _, _)
RunHttp(steps, c, callbackGiven, fault, calls) ==
    IF steps = << >>
    THEN [calls |-> calls, error |-> NoError]
    ELSE LET made == calls \o StepCalls(Head(steps), callbackGiven)
             failure == StepError(Head(steps), c, fault)
         IN IF failure # NoError
            THEN [calls |-> made, error |-> failure]
            ELSE RunHttp(Tail(steps), c, callbackGiven, fault, made)

CreateHttp ==
    /\ pc = "createHttp"
    /\ reads' = reads \cup {Read("ioc", "createHttp")}
    /\ \E fault \in HttpFaults :
         LET r == RunHttp(HttpSteps, ioc, serverCallback, fault, << >>)
         IN IF r.error # NoError
            THEN /\ trace' = trace \o << Begin("createHttp") >> \o r.calls
                 /\ pc' = "catch"
                 /\ error' = r.error
                 /\ UNCHANGED << server, assigned >>
            ELSE /\ server' = [createdBy |-> TransportOfCalls(r.calls)]
                 /\ assigned' = assigned \cup {"server"}
                 /\ trace' = trace \o << Begin("createHttp") >> \o r.calls
                                   \o << End("createHttp") >>
                 /\ pc' = After("createHttp")
                 /\ UNCHANGED error
    /\ UNCHANGED << intent, fields, ioc, DEFAULTS, registrar, loads, exit,
                    environment, bindResult >>

(***************************************************************************)
(* startHttpServer: the Env lookup, Env.get of each key, and the call of   *)
(* _listen, whose promise executor calls this.server.listen. A listen that *)
(* throws at once (or a server that is undefined) rejects the promise.     *)
(***************************************************************************)
EnvKeysAndNodeEnv == << "PORT", "HOST", "NODE_ENV" >>

EnvKeys == << "PORT", "HOST" >>

EnvGets == [i \in 1..Len(EnvKeys) |-> Ev("Env.get", EnvKeys[i])]

Listen ==
    /\ pc = "listen"
    /\ IF ~IocHas(ioc, "Adonis/Src/Env")
       THEN /\ trace' = trace \o << Begin("listen"), Ev("use", "Adonis/Src/Env") >>
            /\ reads' = reads \cup {Read("ioc", "startHttpServer")}
            /\ pc' = "catch"
            /\ error' = ErrorRec("E_IOC_LOOKUP", "Adonis/Src/Env", "")
       ELSE /\ trace' = trace \o << Begin("listen"), Ev("use", "Adonis/Src/Env") >>
                              \o EnvGets \o << Ev("server.listen", server.createdBy) >>
            /\ reads' = reads \cup {Read("ioc", "startHttpServer"),
                                    Read("server", "listen")}
            /\ \E throws \in BOOLEAN :
                 IF "server" \notin assigned
                 THEN /\ pc' = "catch"
                      /\ error' = ErrorRec("TypeError", "", "")
                 ELSE IF throws
                 THEN /\ pc' = "catch"
                      /\ error' = ErrorRec("ERR_SOCKET_BAD_PORT", "", "")
                 ELSE /\ pc' = "listenPending"
                      /\ UNCHANGED error
    /\ UNCHANGED << intent, assigned, fields, ioc, server, DEFAULTS, registrar,
                    loads, exit, environment, bindResult >>

(***************************************************************************)
(* _listen: the callback given to server.listen settles the promise. The   *)
(* transport of createServer (http.Server of Node) registers the callback  *)
(* as a listener of its `listening` event: it calls it, without argument,  *)
(* once it has bound, and never when the bind fails. A transport made by   *)
(* serverCallback may also call it with the bind error.                    *)
(***************************************************************************)
ListenCallback ==
    /\ pc = "listenPending"
    /\ \E failure \in IF server.createdBy = "serverCallback"
                      THEN {"", "EADDRINUSE"} ELSE {""} :
         IF failure # ""
         THEN /\ bindResult' = {failure}
              /\ pc' = "catch"
              /\ error' = ErrorRec(failure, "", "")
              /\ UNCHANGED trace
         ELSE /\ bindResult' = {"listening"}
              /\ pc' = After("listen")
              /\ trace' = Append(trace, End("listen"))
              /\ UNCHANGED error
    /\ UNCHANGED << intent, assigned, fields, ioc, server, DEFAULTS, registrar,
                    loads, exit, environment, reads >>

(***************************************************************************)
(* A transport that fails to bind emits an `error` event instead; _listen  *)
(* registers no listener for it, so the event is an uncaught exception     *)
(* outside the try block: the process dies of it with status 1, or lives   *)
(* on when it handles uncaught exceptions; the promise of _listen stays    *)
(* pending either way.                                                     *)
(***************************************************************************)
ErrorEvent ==
    /\ pc = "listenPending"
    /\ bindResult' = {"EADDRINUSE"}
    /\ trace' = Append(trace, Ev("emit", "error"))
    /\ \E uncaughtHandled \in BOOLEAN :
         IF uncaughtHandled
         THEN /\ pc' = "pending"
              /\ UNCHANGED exitCode
         ELSE /\ pc' = "crashed"
              /\ exitCode' = {1}
    /\ UNCHANGED << intent, assigned, fields, ioc, server, DEFAULTS, registrar,
                    loads, error, logged, environment, reads >>

(***************************************************************************)
(* startHttpServer: the catch block.                                       *)
(***************************************************************************)
Catch ==
    /\ pc = "catch"
    /\ logged' = Append(logged, error)
    /\ exitCode' = {1}
    /\ pc' = "exited"
    /\ UNCHANGED << intent, assigned, fields, ioc, server, DEFAULTS, registrar,
                    loads, trace, error, environment, reads, bindResult >>

Next ==
    \/ StartHttpServer
    \/ LoadRcFile
    \/ InstantiateIoCContainer
    \/ BindHelpersStep
    \/ LoadAppFile
    \/ RegisterProvider
    \/ ApplyUserAliases
    \/ BootProvider
    \/ BootResolved
    \/ RegisterAutoloads
    \/ PreloadFiles
    \/ CreateHttp
    \/ Listen
    \/ ListenCallback
    \/ ErrorEvent
    \/ Catch

Spec == Init /\ [][Next]_vars

(***************************************************************************)
(* _bootstrap on its own: the private method, entered with the intent its  *)
(* caller has set, "http" or "ace", up to its return or its throw.         *)
(***************************************************************************)
InitBootstrap ==
    /\ pc = Phases[1]
    /\ intent \in {"http", "ace"}
    /\ assigned = {"_intent"}
    /\ Constructed

NextBootstrap ==
    \/ LoadRcFile
    \/ InstantiateIoCContainer
    \/ BindHelpersStep
    \/ LoadAppFile
    \/ RegisterProvider
    \/ ApplyUserAliases
    \/ BootProvider
    \/ BootResolved
    \/ RegisterAutoloads
    \/ PreloadFiles

SpecBootstrap == InitBootstrap /\ [][NextBootstrap]_vars

(***************************************************************************)
(* _registerAutoloads invoked a second time, with the same autoload map,   *)
(* between its call by _bootstrap and the preloads.                        *)
(***************************************************************************)
Again == Ev("again", "registerAutoloads")

RegisterAutoloadsAgain ==
    /\ pc = "preloadFiles"
    /\ \A i \in DOMAIN trace : trace[i] # Again
    /\ reads' = reads \cup {Read("autoloads", "registerAutoloads")}
                  \cup (IF DOMAIN autoloads # {}
                        THEN {Read("ioc", "registerAutoloads")} ELSE {})
    /\ ioc' = RegisterAutoloadsOn(ioc, AppRoot, autoloads)
    /\ trace' = Append(trace, Again)
    /\ UNCHANGED << pc, intent, assigned, fields, server, DEFAULTS, registrar,
                    loads, error, exit, environment, bindResult >>

NextAutoloads ==
    \/ NextBootstrap
    \/ RegisterAutoloadsAgain

SpecAutoloads == InitBootstrap /\ [][NextAutoloads]_vars

(***************************************************************************)
(* What the properties below read from the state.                          *)
(***************************************************************************)
ArgsOf(op) ==
    LET Test(e) == e.op = op
        s == SelectSeq(trace, Test)
    IN [i \in 1..Len(s) |-> s[i].arg]

Happened(e) == \E i \in DOMAIN trace : trace[i] = e

\* the number of events `op` among the first n events of the trace
CountBefore(op, n) == Cardinality({j \in 1..(n - 1) : trace[j].op = op})

\* the rc file as _loadRcFile sees it: the loaded object, or {} when missing
GivenRcFile == IF rcModule.kind = "ok" THEN rcModule.value ELSE EmptyRcFile

PhaseOrder ==
    << "loadRcFile", "instantiateIoCContainer", "bindHelpers", "bootProviders",
       "registerAutoloads", "preloadFiles", "createHttp", "listen" >>

HelpersBound ==
    /\ IocHas(ioc, "Adonis/Src/Helpers")
    /\ ioc.bindings["Adonis/Src/Helpers"].singleton
    /\ "Helpers" \in DOMAIN ioc.aliases
    /\ ioc.aliases["Helpers"] = "Adonis/Src/Helpers"

(***************************************************************************)
(* C1: in every run of startHttpServer the phases start in the order load  *)
(* rc file, instantiate container, bind Helpers, register and boot         *)
(* providers, register autoloads, run preloads, create the HTTP transport, *)
(* listen, none skipped and none repeated; a phase starts only when the    *)
(* phase before it has completed (autoloads and preloads only after the    *)
(* awaited boot of every registered provider), and a run that listens has  *)
(* completed all eight.                                                    *)
(***************************************************************************)
C1_PhasesInOrder ==
    LET started == ArgsOf("begin")
        completed == ArgsOf("end")
    IN /\ IsPrefix(started, PhaseOrder)
       /\ IsPrefix(completed, PhaseOrder)
       /\ Len(completed) <= Len(started)
       /\ Len(started) <= Len(completed) + 1
       /\ Len(started) < 4 => registered = << >> /\ booted = << >>
       /\ Len(started) > 4 => booted = list /\ registered = list
       /\ pc = "listening" => completed = PhaseOrder

C1_Witness ==
    /\ pc = "listening"
    /\ Len(booted) = 2
    /\ ArgsOf("end") = PhaseOrder

(***************************************************************************)
(* C2, as claimed: at the moment a provider's boot hook runs, every alias  *)
(* of the resolved autoload map has already been registered with the       *)
(* container.                                                              *)
(***************************************************************************)
C2_AutoloadsBeforeBoot ==
    (pc = "boot" /\ Len(booted) < Len(registered))
        => \A alias \in DOMAIN autoloads : alias \in DOMAIN ioc.autoloads

(***************************************************************************)
(* C2, amended: while providers boot, no alias of the autoload map has     *)
(* been registered; autoload registration starts only after the boot of    *)
(* every registered provider has resolved, and once it has completed every *)
(* alias of the resolved autoload map is registered with its joined path.  *)
(***************************************************************************)
C2_AutoloadsAfterBoot ==
    /\ pc = "boot" => DOMAIN ioc.autoloads = {}
    /\ Happened(Begin("registerAutoloads"))
          => Happened(End("bootProviders")) /\ booted = registered
    /\ Happened(End("registerAutoloads"))
          => \A alias \in DOMAIN autoloads :
                /\ alias \in DOMAIN ioc.autoloads
                /\ ioc.autoloads[alias] = << AppRoot, autoloads[alias] >>

C2_Witness ==
    /\ pc = "boot"
    /\ Len(booted) = 1
    /\ Len(registered) = 2
    /\ "App" \in DOMAIN autoloads
    /\ DOMAIN ioc.autoloads = {}

(***************************************************************************)
(* C3: whenever a provider is registered (control is in the registration   *)
(* part of _bootProviders), the container holds the singleton binding      *)
(* Adonis/Src/Helpers and the alias Helpers pointing to it.                *)
(***************************************************************************)
C3_HelpersBeforeProviders ==
    pc \in {"bootProviders", "register"} => HelpersBound

C3_Witness ==
    /\ pc = "register"
    /\ Len(registered) = 1
    /\ Len(list) = 2
    /\ HelpersBound

(***************************************************************************)
(* C4: the user aliases are applied after every provider of the list has   *)
(* been registered and before any provider is booted; when boot starts,    *)
(* every alias name of the descriptor's aliases points to the user's       *)
(* target, also where a provider gave that name another target.            *)
(***************************************************************************)
C4_UserAliasesOverride ==
    /\ \A i \in DOMAIN trace :
          trace[i].op = "aliases"
             => /\ CountBefore("register", i) = Len(list)
                /\ CountBefore("boot", i) = 0
    /\ \A i \in DOMAIN trace :
          (trace[i].op = "boot" /\ appModule.value.aliases # {})
             => CountBefore("aliases", i) = 1
    /\ (pc = "boot" /\ appModule.value.aliases # {})
          => \A name \in DOMAIN Some(appModule.value.aliases) :
                /\ name \in DOMAIN ioc.aliases
                /\ ioc.aliases[name] = Some(appModule.value.aliases)[name]

C4_Witness ==
    /\ pc = "boot"
    /\ booted = << >>
    /\ registered = << "HttpProvider", "EnvProvider" >>
    /\ appModule.value.aliases = {[Server |-> "App/CustomServer"]}
    /\ ioc.aliases["Server"] = "App/CustomServer"
    /\ ioc.aliases["Route"] = "Adonis/Src/Route"

(***************************************************************************)
(* C5: the list handed to the registrar is the descriptor's providers      *)
(* under the intent http (no ace provider is registered), and providers    *)
(* followed by aceProviders, duplicates kept, under the intent ace;        *)
(* providers are registered in list order.                                 *)
(***************************************************************************)
C5_ProviderList ==
    (pc \in {"register", "boot"} \/ registered # << >>)
       => LET providers == Some(appModule.value.providers).items
              aceProviders == Some(appModule.value.aceProviders).items
          IN /\ intent = "http" =>
                  /\ list = providers
                  /\ \A i \in DOMAIN registered, j \in DOMAIN aceProviders :
                        registered[i] # aceProviders[j]
             /\ intent = "ace" =>
                  /\ Len(list) = Len(providers) + Len(aceProviders)
                  /\ \A i \in DOMAIN providers : list[i] = providers[i]
                  /\ \A j \in DOMAIN aceProviders :
                        list[Len(providers) + j] = aceProviders[j]
             /\ IsPrefix(registered, list)
             /\ pc = "boot" => registered = list

C5_Witness ==
    /\ intent = "ace"
    /\ pc = "boot"
    /\ registered = << "HttpProvider", "HttpProvider", "ReplProvider" >>

(***************************************************************************)
(* C6: when the loaded entry descriptor lacks providers, aceProviders or   *)
(* commands (undefined or falsy), _bootProviders fails with                *)
(* E_MISSING_APP_ESSENTIALS naming a lacking export (the first of the      *)
(* three, in that order) and the start directory, and the run registers no *)
(* provider, applies no user alias and boots no provider.                  *)
(***************************************************************************)
Lacks(descriptor, prop) == descriptor[prop] = {} \/ descriptor[prop] = {JsNull}

C6_MissingExport ==
    ( /\ appModule.kind = "ok"
      /\ \E prop \in {"providers", "aceProviders", "commands"} :
            Lacks(appModule.value, prop)
      /\ Happened(Begin("bootProviders")) )
       => /\ pc \in {"catch", "exited"}
          /\ error.code = "E_MISSING_APP_ESSENTIALS"
          /\ Lacks(appModule.value, error.prop)
          /\ error.prop = "aceProviders" => ~Lacks(appModule.value, "providers")
          /\ error.prop = "commands" =>
                /\ ~Lacks(appModule.value, "providers")
                /\ ~Lacks(appModule.value, "aceProviders")
          /\ error.where = directories.start
          /\ registered = << >>
          /\ booted = << >>
          /\ ArgsOf("register") = << >>
          /\ ArgsOf("aliases") = << >>
          /\ ArgsOf("boot") = << >>
          /\ DOMAIN ioc.aliases = {"Helpers"}

C6_Witness ==
    /\ pc = "exited"
    /\ error = ErrorRec("E_MISSING_APP_ESSENTIALS", "commands", "./boot")
    /\ appModule.value.commands = {}
    /\ appModule.value.aliases # {}
    /\ registered = << >>

(***************************************************************************)
(* C7: _require returns null without raising only when the load failed     *)
(* with MODULE_NOT_FOUND or ENOENT and optional is true; for every other   *)
(* failure the original error propagates, and a successful load returns    *)
(* the loaded value.                                                       *)
(***************************************************************************)
C7_RequirePolicy ==
    \A i \in DOMAIN loads :
       LET l == loads[i]
           notFound == /\ l.outcome.kind = "err"
                       /\ l.outcome.error.code \in {"MODULE_NOT_FOUND", "ENOENT"}
       IN /\ l.result.kind = "null" <=> (notFound /\ l.optional)
          /\ (l.outcome.kind = "err" /\ ~(notFound /\ l.optional))
                => /\ l.result.kind = "throw"
                   /\ l.result.error = l.outcome.error
                   /\ i = Len(loads)
                   /\ pc \in {"catch", "exited"}
                   /\ error = l.outcome.error
          /\ l.outcome.kind = "ok"
                => /\ l.result.kind = "return"
                   /\ l.result.value = l.outcome.value

C7_Witness ==
    /\ Len(loads) = 2
    /\ loads[1].optional
    /\ loads[1].outcome.kind = "err"
    /\ loads[1].result.kind = "null"
    /\ ~loads[2].optional
    /\ loads[2].outcome = LoadFails("MODULE_NOT_FOUND")
    /\ loads[2].result.kind = "throw"

(***************************************************************************)
(* C8: _preloadFiles loads exactly the entries whose intent is absent or   *)
(* equal to the run intent, in their original order; an optional entry     *)
(* whose file is missing does not raise and the next entry is loaded; a    *)
(* non-optional entry whose file is missing raises the load error.         *)
(***************************************************************************)
PreloadsDone ==
    LET Test(l) == l.by = "preloadFiles"
    IN SelectSeq(loads, Test)

PreloadsDue ==
    LET Test(node) == node.intent = {} \/ node.intent = {intent}
    IN SelectSeq(preloads, Test)

C8_PreloadRunner ==
    Happened(Begin("preloadFiles"))
       => LET done == PreloadsDone
              due == PreloadsDue
              Missing(l) == /\ l.outcome.kind = "err"
                            /\ l.outcome.error.code \in {"MODULE_NOT_FOUND", "ENOENT"}
          IN /\ Len(done) <= Len(due)
             /\ \A i \in DOMAIN done :
                   /\ done[i].file = << AppRoot, due[i].file >>
                   /\ done[i].optional = due[i].optional
                   /\ (Missing(done[i]) /\ done[i].optional)
                         => done[i].result.kind = "null"
                   /\ (Missing(done[i]) /\ ~done[i].optional)
                         => /\ done[i].result.kind = "throw"
                            /\ error = done[i].outcome.error
                   /\ done[i].result.kind = "throw" => i = Len(done)
             /\ Len(done) < Len(due)
                   => /\ done # << >>
                      /\ done[Len(done)].result.kind = "throw"
             /\ Happened(End("preloadFiles"))
                   <=> (done = << >> \/ done[Len(done)].result.kind # "throw")
             /\ Happened(End("preloadFiles")) => Len(done) = Len(due)

C8_Witness ==
    /\ Happened(End("preloadFiles"))
    /\ intent = "ace"
    /\ Len(preloads) = 2
    /\ preloads[1].intent = {"http"}
    /\ Len(PreloadsDone) = 1
    /\ PreloadsDone[1].result.kind = "null"

C8_WitnessRaises ==
    /\ pc = "catch"
    /\ Len(preloads) = 2
    /\ Len(PreloadsDone) = 2
    /\ PreloadsDone[1].result.kind = "null"
    /\ ~PreloadsDone[2].optional
    /\ PreloadsDone[2].outcome = LoadFails("MODULE_NOT_FOUND")

(***************************************************************************)
(* C9: the resolved directory map has the rc file's value for every key    *)
(* the rc file gives and the built-in default for every built-in key it    *)
(* omits; without `directories`, or without an rc file, it is the built-in *)
(* map exactly; DEFAULTS is never changed.                                 *)
(***************************************************************************)
BuiltinDirectories ==
    {"config", "public", "database", "migrations", "seeds", "resources", "views",
     "tmp", "start"}

C9_Directories ==
    /\ DEFAULTS = InitialDefaults
    /\ "directories" \in assigned
          => LET given == GivenRcFile.directories
                 keys == IF given = {} THEN {} ELSE DOMAIN Some(given)
             IN /\ DOMAIN directories = BuiltinDirectories \cup keys
                /\ \A k \in keys : directories[k] = Some(given)[k]
                /\ \A k \in BuiltinDirectories \ keys :
                      directories[k] = DefaultDirectories[k]
                /\ given = {} => directories = DefaultDirectories

C9_Witness ==
    /\ "directories" \in assigned
    /\ GivenRcFile.directories = {[config |-> "./cfg", uploads |-> "./uploads"]}
    /\ directories.config = "./cfg"
    /\ directories.uploads = "./uploads"
    /\ directories.start = "./start"

(***************************************************************************)
(* C10, as claimed: the resolved autoload map is the rc file's autoloads   *)
(* if that is present and non-empty, and otherwise (absent, or present but *)
(* empty) the built-in App -> ./app.                                       *)
(***************************************************************************)
C10_AutoloadsNonEmptyOrDefault ==
    "autoloads" \in assigned
       => LET given == GivenRcFile.autoloads
          IN IF given # {} /\ DOMAIN Some(given) # {}
             THEN autoloads = Some(given)
             ELSE autoloads = [App |-> "./app"]

(***************************************************************************)
(* C10, amended: the resolved autoload map is the rc file's autoloads,     *)
(* unmerged, whenever the rc file has that property, an empty map          *)
(* included; only when the property is absent (or there is no rc file) is  *)
(* it the built-in App -> ./app.                                           *)
(***************************************************************************)
C10_AutoloadsGivenOrDefault ==
    "autoloads" \in assigned
       => LET given == GivenRcFile.autoloads
          IN IF given # {}
             THEN autoloads = Some(given)
             ELSE autoloads = [App |-> "./app"]

C10_Witness ==
    /\ "autoloads" \in assigned
    /\ GivenRcFile.autoloads = {EmptyMap}
    /\ DOMAIN autoloads = {}

(***************************************************************************)
(* C11: a failure in any phase, the listen phase included, moves the run   *)
(* directly to the failed outcome: once a phase has failed (an error was   *)
(* raised, or the transport failed to bind) the run is in the catch block  *)
(* or has left it, with the error logged and exit status 1.                *)
(***************************************************************************)
C11_EveryFailureIsCaught ==
    (error # NoError \/ bindResult = {"EADDRINUSE"})
       => /\ pc \in {"catch", "exited"}
          /\ pc = "exited" => logged = << error >> /\ exitCode = {1}

(***************************************************************************)
(* What holds of the failures raised inside the try block of               *)
(* startHttpServer: the phase that raised is the last one started, no      *)
(* phase starts twice, nothing but the catch block acts once the error is  *)
(* raised, the error is logged once and the process exits with status 1.   *)
(***************************************************************************)
Failed == error # NoError

RaisedFailureState ==
    /\ Failed => pc \in {"catch", "exited"}
    /\ pc \in {"catch", "exited"} => Failed
    /\ Failed => Len(ArgsOf("begin")) = Len(ArgsOf("end")) + 1
    /\ \A i, j \in DOMAIN trace :
          (trace[i].op = "begin" /\ trace[i] = trace[j]) => i = j
    /\ pc = "exited" => logged = << error >> /\ exitCode = {1}
    /\ pc = "catch" => logged = << >> /\ exitCode = {}

RaisedFailureStep ==
    Failed => /\ pc = "catch"
              /\ pc' = "exited"
              /\ logged' = << error >>
              /\ exitCode' = {1}
              /\ UNCHANGED << intent, assigned, fields, ioc, server, DEFAULTS,
                              registrar, loads, trace, error, reads, bindResult >>

RaisedFailureIsFinal == [](RaisedFailureState) /\ [][RaisedFailureStep]_vars

(***************************************************************************)
(* C12: when the transport fails to bind, the promise of the listen step   *)
(* rejects with the bind error and the run ends in the failed outcome: a   *)
(* run whose transport failed to bind is in the catch block, or has left   *)
(* it, with that error.                                                    *)
(***************************************************************************)
C12_BindFailureRejects ==
    bindResult = {"EADDRINUSE"}
       => /\ pc \in {"catch", "exited"}
          /\ error = ErrorRec("EADDRINUSE", "", "")

(***************************************************************************)
(* C13: a malformed or incomplete rc file is never fatal: whether the rc   *)
(* file is missing, unparsable or lacks fields, the load of the rc file    *)
(* completes without raising.                                              *)
(***************************************************************************)
C13_RcNeverFatal ==
    Happened(Begin("loadRcFile")) => Happened(End("loadRcFile"))

(***************************************************************************)
(* C13, amended: a missing or incomplete rc file is never fatal: the load  *)
(* completes, every value the file lacks is the built-in default, and the  *)
(* next step is the creation of the container; an rc file that exists but  *)
(* cannot be loaded raises its load error and no later phase starts.       *)
(***************************************************************************)
RcUnloadable ==
    /\ rcModule.kind = "err"
    /\ rcModule.error.code \notin {"MODULE_NOT_FOUND", "ENOENT"}

C13_RcMissingOrIncomplete ==
    Happened(Begin("loadRcFile"))
       => IF RcUnloadable
          THEN /\ error = rcModule.error
               /\ pc \in {"catch", "exited"}
               /\ ~Happened(End("loadRcFile"))
               /\ ~Happened(Begin("instantiateIoCContainer"))
          ELSE LET given == GivenRcFile
               IN /\ Happened(End("loadRcFile"))
                  /\ Len(trace) = 2 => pc = "instantiateIoCContainer" /\ ~Failed
                  /\ given.directories = {} => directories = DefaultDirectories
                  /\ given.directories # {}
                        => \A k \in DOMAIN DefaultDirectories :
                              k \notin DOMAIN Some(given.directories)
                                 => directories[k] = DefaultDirectories[k]
                  /\ given.autoloads = {} => autoloads = DefaultAutoloads
                  /\ given.typescript = {} => typescript = FALSE
                  /\ given.preloads = {} => preloads = << >>

C13_Witness ==
    /\ rcModule = LoadFails("ENOENT")
    /\ pc = "instantiateIoCContainer"
    /\ Happened(End("loadRcFile"))
    /\ directories = DefaultDirectories
    /\ autoloads = DefaultAutoloads

(***************************************************************************)
(* C14: no field of the bootstrap state is read before the phase that      *)
(* produces it has completed: every read of a field, the typescript flag   *)
(* the module loader reads on each load included, finds it assigned.       *)
(***************************************************************************)
C14_NoReadBeforeAssigned == \A r \in reads : r.defined

(***************************************************************************)
(* C15: the server handle is assigned only by the HTTP creation step and   *)
(* is the last field populated: it is set exactly when _createHttp has     *)
(* completed, every other field is assigned by then, and once it is set    *)
(* neither it nor directories, autoloads, typescript, preloads, the        *)
(* container or the intent changes.                                        *)
(***************************************************************************)
OtherFields == {"directories", "autoloads", "typescript", "preloads", "ioc", "_intent"}

C15_ServerUnsetBefore ==
    /\ "server" \in assigned <=> Happened(End("createHttp"))
    /\ "server" \in assigned => OtherFields \subseteq assigned
    /\ "server" \notin assigned => server = [createdBy |-> ""]
    /\ "server" \in assigned => server.createdBy \in {"serverCallback", "createServer"}

C15_ServerStep ==
    /\ "server" \in assigned
          => UNCHANGED << directories, autoloads, typescript, preloads, ioc,
                          intent, server, assigned >>
    /\ server' # server => pc = "createHttp" /\ "server" \notin assigned

C15_ServerIsLast == [](C15_ServerUnsetBefore) /\ [][C15_ServerStep]_vars

C15_Witness ==
    /\ pc = "listening"
    /\ server = [createdBy |-> "createServer"]
    /\ DOMAIN ioc.autoloads # {}
    /\ loads # << >>

(***************************************************************************)
(* C16: registering autoloads is idempotent: a second invocation of the    *)
(* registrar with the same autoload map leaves the autoload registrations  *)
(* of the container, and the container, as the first invocation left them. *)
(***************************************************************************)
C16_SecondIsFirst ==
    Happened(End("registerAutoloads"))
       => LET once == RegisterAutoloadsOn(ioc, AppRoot, autoloads)
          IN /\ once = ioc
             /\ RegisterAutoloadsOn(once, AppRoot, autoloads) = once
             /\ DOMAIN autoloads \subseteq DOMAIN ioc.autoloads
             /\ \A alias \in DOMAIN autoloads :
                   ioc.autoloads[alias] = << AppRoot, autoloads[alias] >>

C16_AgainStep ==
    trace' = Append(trace, Again) => ioc' = ioc

Pos(op, arg) ==
    LET at == {i \in DOMAIN trace : trace[i] = Ev(op, arg)}
    IN IF at = {} THEN 0 ELSE CHOOSE i \in at : \A j \in at : i <= j

TransportAt ==
    LET at == {i \in DOMAIN trace : trace[i].op \in {"serverCallback", "createServer"}}
    IN IF at = {} THEN 0 ELSE CHOOSE i \in at : \A j \in at : i <= j

HandlerBoundAt ==
    LET at == {i \in DOMAIN trace : /\ trace[i] = Ev("bind", "Adonis/Src/Server")
                                    /\ i < TransportAt}
    IN IF at = {} THEN 0 ELSE CHOOSE i \in at : \A j \in at : i <= j

C17_HttpLaunchOrder ==
    LET useServer == Pos("use", "Adonis/Src/Server")
        useRoute == Pos("use", "Adonis/Src/Route")
        commit == Pos("commit", "Adonis/Src/Route")
        optimize == Pos("optimize", "Adonis/Src/Server")
    IN /\ commit > 0 => 0 < useServer /\ useServer < commit
                        /\ 0 < useRoute /\ useRoute < commit
       /\ optimize > 0 => 0 < commit /\ commit < optimize
       /\ TransportAt > 0 => /\ 0 < optimize
                             /\ optimize < HandlerBoundAt
                             /\ HandlerBoundAt < TransportAt
       /\ "server" \in assigned => TransportAt > 0
       /\ (/\ error.code \in {"E_IOC_LOOKUP", "E_IOC_RESOLVE"}
           /\ error.prop \in {"Adonis/Src/Server", "Adonis/Src/Route"})
             => /\ commit = 0
                /\ optimize = 0
                /\ TransportAt = 0
                /\ "server" \notin assigned

C17_Witness ==
    /\ error = ErrorRec("E_IOC_RESOLVE", "Adonis/Src/Route", "")
    /\ Happened(Ev("use", "Adonis/Src/Server"))
    /\ pc = "exited"

(***************************************************************************)
(* C18: exactly one transport is constructed per launch: a serverCallback, *)
(* when supplied, is invoked exactly once with the bound handler, what it  *)
(* returns becomes the server handle and createServer is not called;       *)
(* without one, createServer is called once with the bound handler.        *)
(***************************************************************************)
C18_OneTransport ==
    LET overrides == ArgsOf("serverCallback")
        defaults == ArgsOf("createServer")
    IN /\ Len(overrides) + Len(defaults) <= 1
       /\ serverCallback => defaults = << >>
       /\ ~serverCallback => overrides = << >>
       /\ "server" \in assigned
             => /\ Len(overrides) + Len(defaults) = 1
                /\ serverCallback
                      => overrides = << "handler" >>
                         /\ server = [createdBy |-> "serverCallback"]
                /\ ~serverCallback
                      => defaults = << "handler" >>
                         /\ server = [createdBy |-> "createServer"]

C18_Witness ==
    /\ serverCallback
    /\ pc = "listening"
    /\ server = [createdBy |-> "serverCallback"]
    /\ ArgsOf("serverCallback") = << "handler" >>

(***************************************************************************)
(* C19: the Env collaborator is resolved and queried only at listen time:  *)
(* it is looked up only once the HTTP transport has been created, and it   *)
(* is asked for PORT and HOST and for no other key.                        *)
(***************************************************************************)
C19_EnvAtListenOnly ==
    LET lookup == Pos("use", "Adonis/Src/Env")
        created == Pos("end", "createHttp")
        keys == ArgsOf("Env.get")
    IN /\ lookup > 0 => /\ "server" \in assigned
                        /\ 0 < created
                        /\ created < lookup
                        /\ Pos("begin", "listen") < lookup
       /\ Len(ArgsOf("use")) <= 3
       /\ keys \in {<< >>, << "PORT", "HOST" >>}
       /\ \A i \in DOMAIN trace : trace[i].op = "Env.get" => 0 < lookup /\ lookup < i
       /\ pc \in {"listenPending", "listening"} => keys = << "PORT", "HOST" >>

C19_Witness ==
    /\ pc = "listening"
    /\ ArgsOf("Env.get") = << "PORT", "HOST" >>
    /\ Happened(Ev("use", "Adonis/Src/Env"))

(***************************************************************************)
(* C20: when a preload entry that matches the run intent fails to load (a  *)
(* missing file that is not optional, or a broken file), no matching entry *)
(* after it is loaded and no HTTP transport is created, while the matching *)
(* entries before it have been loaded and stay loaded.                     *)
(***************************************************************************)
\* does a load of this entry fail: broken, or missing and not optional
PreloadFails(node) ==
    LET outcome == PreloadOutcome(node.file)
    IN /\ outcome.kind = "err"
       /\ \/ ~node.optional
          \/ outcome.error.code \notin {"MODULE_NOT_FOUND", "ENOENT"}

\* the matching entries up to and including the first that fails
PreloadsUntilFailure ==
    LET due == PreloadsDue
        failing == {i \in DOMAIN due : PreloadFails(due[i])}
    IN IF failing = {} THEN due
       ELSE SubSeq(due, 1, CHOOSE i \in failing : \A j \in failing : i <= j)

C20_PreloadFailureStops ==
    Happened(Begin("preloadFiles"))
       => LET done == PreloadsDone
              expected == PreloadsUntilFailure
          IN /\ Len(done) = Len(expected)
             /\ \A i \in DOMAIN done :
                   /\ done[i].file = << AppRoot, expected[i].file >>
                   /\ done[i].result.kind = "throw" <=> PreloadFails(expected[i])
                   /\ i < Len(done) => done[i].result.kind \in {"return", "null"}
             /\ Len(expected) < Len(PreloadsDue)
                   => /\ error = done[Len(done)].outcome.error
                      /\ pc \in {"catch", "exited"}
                      /\ "server" \notin assigned
                      /\ ~Happened(Begin("createHttp"))
                      /\ TransportAt = 0

C20_LoadsStay == IsPrefix(loads, loads')

====
